---- MODULE Spec2Model ----
(***************************************************************************)
(* A model of src/app.py: the jeonse-ratio calculator.                     *)
(*                                                                         *)
(* The program is a Streamlit script.  Streamlit runs main() from top to   *)
(* bottom once per user interaction; the widgets keep their values between *)
(* runs, and st.button returns True only in the run its own click started. *)
(* The state is therefore the three widget values, the button that started *)
(* the last run and the page that run rendered.  Each user interaction is  *)
(* one action: it sets the widget value (or the clicked button) and runs   *)
(* main() as a whole.                                                      *)
(*                                                                         *)
(* The four helper functions are operators, computed as Python computes    *)
(* them.  calc_jeonse_ratio works in IEEE-754 binary64: the division, the  *)
(* multiplication by 100 and round(x, 1) are each correctly rounded on a   *)
(* 53-bit mantissa, held as an arbitrary-precision integer because the     *)
(* model checker's integers have 32 bits.  A ratio returned by round(x, 1) *)
(* is a one-decimal number and is held as its integer count of tenths.     *)
(* Text is a sequence of Unicode code points on input and a string on      *)
(* output.  The source's Korean literals are written in English here       *)
(* (strings of the module are ASCII); each names its source line.          *)
(***************************************************************************)
EXTENDS Integers, Sequences, FiniteSets, TLC

VARIABLES
    addr,            \* st.text_input value (line 93): a sequence of code points
    sale_price,      \* st.number_input value (line 110): an integer >= 0
    jeonse_deposit,  \* st.number_input value (line 113): an integer >= 0
    clicked,         \* the button whose click started the last run of main()
    page,            \* what the last run of main() rendered
    call             \* the last direct call of a helper function (FnSpec)

vars == <<addr, sale_price, jeonse_deposit, clicked, page, call>>

(***************************************************************************)
(* Python values.  None, a raised exception, and tagged numbers / strings. *)
(***************************************************************************)
None == [tag |-> "None"]

Raised(exc) == [tag |-> "raise", exc |-> exc]

IsRaised(v) == v.tag = "raise"

\* a float with one decimal place, as round(x, 1) returns: tenths / 10
Float1(t) == [tag |-> "float", tenths |-> t]

\* a str given by its code points (an argument)
Str(chars) == [tag |-> "str", chars |-> chars]

\* a str given as text (a result)
Text(s) == [tag |-> "text", s |-> s]

\* a numeric argument: the int num (den = 1) or the decimal literal num/den
IntNum(n) == [num |-> n, den |-> 1]

Decimal(n, d) == [num |-> n, den |-> d]

\* n percentage points in tenths
Tenths(n) == n * 10

(***************************************************************************)
(* Arbitrary-precision naturals: little-endian sequences of 15-bit limbs.  *)
(***************************************************************************)
LimbBits == 15

LimbBase == 2^LimbBits

\* the mantissa width of a binary64
MantissaBits == 53

RECURSIVE BigTrim(_)
BigTrim(a) ==
    IF a = <<>> THEN <<>>
    ELSE IF a[Len(a)] = 0 THEN BigTrim(SubSeq(a, 1, Len(a) - 1))
    ELSE a

RECURSIVE IntToBig(_)
IntToBig(n) ==
    IF n = 0 THEN <<>> ELSE <<n % LimbBase>> \o IntToBig(n \div LimbBase)

RECURSIVE BigToInt(_)
BigToInt(a) ==
    IF a = <<>> THEN 0 ELSE Head(a) + LimbBase * BigToInt(Tail(a))

RECURSIVE BigMulCarry(_, _, _)
BigMulCarry(a, k, carry) ==
    IF a = <<>> THEN IntToBig(carry)
    ELSE LET t == Head(a) * k + carry
         IN  <<t % LimbBase>> \o BigMulCarry(Tail(a), k, t \div LimbBase)

\* a * k for 0 <= k <= LimbBase
BigMulSmall(a, k) == BigTrim(BigMulCarry(a, k, 0))

\* quotient and remainder of a by p, 0 < p <= LimbBase
DivLimb(q, t, p) == [q |-> <<t \div p>> \o q, r |-> t % p]

\* one step of the long division: hi is the result for the higher limbs
DivStep(hi, limb, p) == DivLimb(hi.q, hi.r * LimbBase + limb, p)

RECURSIVE BigDivRem(_, _)
BigDivRem(a, p) ==
    IF a = <<>> THEN [q |-> <<>>, r |-> 0]
    ELSE DivStep(BigDivRem(Tail(a), p), Head(a), p)

BigHalf(a) == BigTrim(BigDivRem(a, 2).q)

RECURSIVE IntBitLen(_)
IntBitLen(n) == IF n = 0 THEN 0 ELSE 1 + IntBitLen(n \div 2)

BigBitLen(a) ==
    IF a = <<>> THEN 0 ELSE LimbBits * (Len(a) - 1) + IntBitLen(a[Len(a)])

RECURSIVE BigInc(_)
BigInc(a) ==
    IF a = <<>> THEN <<1>>
    ELSE IF Head(a) + 1 < LimbBase THEN <<Head(a) + 1>> \o Tail(a)
    ELSE <<0>> \o BigInc(Tail(a))

BigOdd(a) == a # <<>> /\ Head(a) % 2 = 1

\* a shifted right by n bits, and whether a nonzero bit was shifted out
ShrLimb(rest, limb) == [q |-> rest.q, lost |-> rest.lost \/ limb # 0]

ShrBits(d) == [q |-> BigTrim(d.q), lost |-> d.r # 0]

RECURSIVE BigShr(_, _)
BigShr(a, n) ==
    IF a = <<>> THEN [q |-> <<>>, lost |-> FALSE]
    ELSE IF n >= LimbBits THEN ShrLimb(BigShr(Tail(a), n - LimbBits), Head(a))
    ELSE ShrBits(BigDivRem(a, 2^n))

\* a shifted left by n bits
RECURSIVE BigShl(_, _)
BigShl(a, n) ==
    IF a = <<>> THEN <<>>
    ELSE IF n >= LimbBits THEN <<0>> \o BigShl(a, n - LimbBits)
    ELSE BigMulSmall(a, 2^n)

\* q + (guard bit, then a fraction that is nonzero iff inexact), rounded to
\* the nearest integer, ties to even
RoundGuarded(q, guard, inexact) ==
    IF guard /\ (inexact \/ BigOdd(q)) THEN BigInc(q) ELSE q

\* upper is a shifted right by s - 1 bits: its last bit is the guard bit
RoundUpper(upper, sticky) ==
    RoundGuarded(BigHalf(upper.q), BigOdd(upper.q), upper.lost \/ sticky)

\* (a + f) / 2^s rounded to the nearest integer, ties to even, where
\* 0 <= f < 1 and sticky says that f is not 0
RoundShift(a, s, sticky) ==
    IF s = 0 THEN a ELSE RoundUpper(BigShr(a, s - 1), sticky)

(***************************************************************************)
(* binary64 values >= 0: [m, e] is m * 2^e with 2^52 <= m < 2^53, or 0.    *)
(* Every operation rounds its exact result to nearest, ties to even.       *)
(***************************************************************************)
\* a rounded mantissa that carried into bit 53 is 2^53: halve it
Renormalize(q, e) ==
    IF BigBitLen(q) > MantissaBits THEN [m |-> BigHalf(q), e |-> e + 1]
    ELSE [m |-> q, e |-> e]

\* the binary64 nearest to (b + f) * 2^e, where b has n bits
NormalizeLen(b, n, e, sticky) ==
    IF n = 0 THEN [m |-> <<>>, e |-> 0]
    ELSE IF n <= MantissaBits
    THEN [m |-> BigShl(b, MantissaBits - n), e |-> e - (MantissaBits - n)]
    ELSE Renormalize(RoundShift(b, n - MantissaBits, sticky),
                     e + (n - MantissaBits))

Normalize(b, e, sticky) == NormalizeLen(b, BigBitLen(b), e, sticky)

\* float(n) of an int 0 <= n < 2^31: exact
FromInt(n) == Normalize(IntToBig(n), 0, FALSE)

\* x / p for an int 0 < p < LimbBase: the quotient to 55 bits or more, then
\* rounded with the remainder as the sticky bit
NormalizeQuotient(d, e) == Normalize(BigTrim(d.q), e, d.r # 0)

FDivSmall(x, p) ==
    NormalizeQuotient(BigDivRem(BigShl(x.m, LimbBits + 2), p),
                      x.e - (LimbBits + 2))

\* x * k for an int 0 <= k <= LimbBase
FMulSmall(x, k) == Normalize(BigMulSmall(x.m, k), x.e, FALSE)

\* the binary64 of a numeric argument: an int, or a decimal literal, which
\* Python reads as the binary64 nearest to num/den
ToFloat(v) ==
    IF v.den = 1 THEN FromInt(v.num) ELSE FDivSmall(FromInt(v.num), v.den)

\* Python's x / p: ZeroDivisionError for p = 0
TrueDiv(x, p) ==
    IF p = 0 THEN Raised("ZeroDivisionError") ELSE FDivSmall(x, p)

\* round(x, 1) in tenths: the decimal with one place nearest to the exact
\* value of x, ties to even (float.__round__ rounds the exact binary value)
\* faulty variant of round1: truncates to one decimal, as int(x * 10) / 10
round1_floor(x) ==
    BigToInt(IF x.e >= 0 THEN BigShl(BigMulSmall(x.m, 10), x.e)
             ELSE BigShr(BigMulSmall(x.m, 10), 0 - x.e).q)

RoundScaled(t, e) ==
    BigToInt(IF e >= 0 THEN BigShl(t, e) ELSE RoundShift(t, 0 - e, FALSE))

round1(x) == RoundScaled(BigMulSmall(x.m, 10), x.e)

(***************************************************************************)
(* Text.                                                                   *)
(***************************************************************************)
DigitChars == <<"0", "1", "2", "3", "4", "5", "6", "7", "8", "9">>

HexChars ==
    <<"0", "1", "2", "3", "4", "5", "6", "7", "8", "9", "A", "B", "C", "D", "E", "F">>

UpperChars ==
    <<
      "A", "B", "C", "D", "E", "F", "G", "H", "I", "J", "K", "L", "M",
      "N", "O", "P", "Q", "R", "S", "T", "U", "V", "W", "X", "Y", "Z"
    >>

LowerChars ==
    <<
      "a", "b", "c", "d", "e", "f", "g", "h", "i", "j", "k", "l", "m",
      "n", "o", "p", "q", "r", "s", "t", "u", "v", "w", "x", "y", "z"
    >>

\* chr(b) of the bytes quote leaves alone
Chr(b) ==
    IF b \in 48 .. 57 THEN DigitChars[b - 47]
    ELSE IF b \in 65 .. 90 THEN UpperChars[b - 64]
    ELSE IF b \in 97 .. 122 THEN LowerChars[b - 96]
    ELSE CASE b = 45 -> "-"
           [] b = 46 -> "."
           [] b = 47 -> "/"
           [] b = 95 -> "_"
           [] b = 126 -> "~"

\* str(n) of an int n >= 0
RECURSIVE IntStr(_)
IntStr(n) ==
    IF n < 10 THEN DigitChars[n + 1]
    ELSE IntStr(n \div 10) \o DigitChars[(n % 10) + 1]

\* three digits, zero-padded
Pad3(n) ==
    DigitChars[(n \div 100) + 1] \o DigitChars[((n \div 10) % 10) + 1]
        \o DigitChars[(n % 10) + 1]

\* f"{n:,}" of an int n >= 0
RECURSIVE FormatThousands(_)
FormatThousands(n) ==
    IF n < 1000 THEN IntStr(n)
    ELSE FormatThousands(n \div 1000) \o "," \o Pad3(n % 1000)

\* f"{x:.1f}" and repr(x) of a one-decimal number x >= 0 given in tenths
FormatFloat1(t) == IntStr(t \div 10) \o "." \o DigitChars[(t % 10) + 1]

\* str.isspace: the code points str.strip() removes
Whitespace ==
    (9 .. 13) \cup (28 .. 32) \cup {133, 160, 5760} \cup (8192 .. 8202)
        \cup {8232, 8233, 8239, 8287, 12288}

RECURSIVE lstrip(_)
lstrip(s) ==
    IF s # <<>> /\ Head(s) \in Whitespace THEN lstrip(Tail(s)) ELSE s

RECURSIVE rstrip(_)
rstrip(s) ==
    IF s # <<>> /\ s[Len(s)] \in Whitespace
    THEN rstrip(SubSeq(s, 1, Len(s) - 1))
    ELSE s

strip(s) == rstrip(lstrip(s))

\* str.encode("utf-8") of one code point
Utf8(c) ==
    IF c < 128 THEN <<c>>
    ELSE IF c < 2048 THEN <<192 + (c \div 64), 128 + (c % 64)>>
    ELSE IF c < 65536
    THEN <<224 + (c \div 4096), 128 + ((c \div 64) % 64), 128 + (c % 64)>>
    ELSE <<240 + (c \div 262144), 128 + ((c \div 4096) % 64),
           128 + ((c \div 64) % 64), 128 + (c % 64)>>

\* the bytes urllib.parse.quote leaves alone: letters, digits, "_.-~", and
\* its default safe character "/"
SafeBytes ==
    (65 .. 90) \cup (97 .. 122) \cup (48 .. 57) \cup {95, 46, 45, 126} \cup {47}

QuoteByte(b) ==
    IF b \in SafeBytes THEN Chr(b)
    ELSE "%" \o HexChars[(b \div 16) + 1] \o HexChars[(b % 16) + 1]

RECURSIVE QuoteBytes(_)
QuoteBytes(bs) ==
    IF bs = <<>> THEN "" ELSE QuoteByte(Head(bs)) \o QuoteBytes(Tail(bs))

\* urllib.parse.quote(s)
RECURSIVE quote(_)
quote(s) ==
    IF s = <<>> THEN "" ELSE QuoteBytes(Utf8(Head(s))) \o quote(Tail(s))

(***************************************************************************)
(* The helper functions of src/app.py.                                     *)
(***************************************************************************)
SEARCH_URL_PREFIX == "https://new.land.naver.com/search?sk="

\* lines 11-18.  address is None or Str(code points)
\* faulty variant of build_naver_search_url: tests the stripped address but
\* encodes the raw one
build_naver_search_url_raw(address) ==
    IF address = None THEN None
    ELSE IF strip(address.chars) = <<>> THEN None
    ELSE Text(SEARCH_URL_PREFIX \o quote(address.chars))

SearchUrl(stripped) ==
    IF stripped = <<>> THEN None
    ELSE Text(SEARCH_URL_PREFIX \o quote(stripped))

build_naver_search_url(address) ==
    SearchUrl(strip(IF address = None THEN <<>> ELSE address.chars))

\* faulty variant of calc_jeonse_ratio: the guard written price < 0, so that
\* a price of 0 reaches the division
calc_jeonse_ratio_lt(deposit, price) ==
    IF price < 0 THEN None
    ELSE IF price = 0 THEN TrueDiv(ToFloat(deposit), price)
    ELSE Float1(round1(FMulSmall(TrueDiv(ToFloat(deposit), price), 100)))

\* faulty variant of calc_jeonse_ratio: the ratio cut, not rounded, to one
\* decimal
calc_jeonse_ratio_cut(deposit, price) ==
    IF price <= 0 THEN None
    ELSE Float1(round1_floor(FMulSmall(TrueDiv(ToFloat(deposit), price), 100)))

\* lines 24-28.  deposit is a numeric argument >= 0, price an int
calc_jeonse_ratio(deposit, price) ==
    IF price <= 0 THEN None
    ELSE Float1(round1(FMulSmall(TrueDiv(ToFloat(deposit), price), 100)))

\* faulty variant of get_risk_level: <= at the two boundaries
get_risk_level_le(ratio) ==
    IF ratio = None THEN <<"Unknown", "#7f8c8d">>
    ELSE IF ratio.tenths <= Tenths(60) THEN <<"Safe", "#2ecc71">>
    ELSE IF ratio.tenths <= Tenths(80) THEN <<"Caution", "#f1c40f">>
    ELSE <<"Danger", "#e74c3c">>

\* lines 31-41.  ratio is None or a Float1; the result is (label, color).
\* Labels: "Unknown" line 34, "Safe" line 37, "Caution" line 39,
\* "Danger" line 41
get_risk_level(ratio) ==
    IF ratio = None THEN <<"Unknown", "#7f8c8d">>
    ELSE IF ratio.tenths < Tenths(60) THEN <<"Safe", "#2ecc71">>
    ELSE IF ratio.tenths < Tenths(80) THEN <<"Caution", "#f1c40f">>
    ELSE <<"Danger", "#e74c3c">>

\* lines 47-76.  The go.Figure as the record of what the code sets
\* faulty variant of Figure: the second segment clamped at 0
Figure_clamped(r, color) ==
    [tag         |-> "Figure",
     values      |-> <<r, IF Tenths(100) - r < 0 THEN 0 ELSE Tenths(100) - r>>,
     hole        |-> Float1(7),
     colors      |-> <<color, "#ecf0f1">>,
     textinfo    |-> "none",
     showlegend  |-> FALSE,
     margin      |-> [l |-> 0, r |-> 0, t |-> 0, b |-> 0],
     annotations |-> << [text      |-> FormatFloat1(r) \o "%",
                         x         |-> Float1(5),
                         y         |-> Float1(5),
                         font      |-> [size |-> 26, color |-> color],
                         showarrow |-> FALSE] >>]

\* lines 52-76, r being the ratio after lines 49-50
Figure(r, color) ==
    [tag         |-> "Figure",
     values      |-> <<r, Tenths(100) - r>>,
     hole        |-> Float1(7),
     colors      |-> <<color, "#ecf0f1">>,
     textinfo    |-> "none",
     showlegend  |-> FALSE,
     margin      |-> [l |-> 0, r |-> 0, t |-> 0, b |-> 0],
     annotations |-> << [text      |-> FormatFloat1(r) \o "%",
                         x         |-> Float1(5),
                         y         |-> Float1(5),
                         font      |-> [size |-> 26, color |-> color],
                         showarrow |-> FALSE] >>]

\* faulty variant of make_donut_chart: lines 49-50 left out, so that
\* 100 - None raises
make_donut_chart_no_default(ratio, color) ==
    IF ratio = None THEN Raised("TypeError") ELSE Figure(ratio.tenths, color)

make_donut_chart(ratio, color) ==
    Figure(IF ratio = None THEN 0 ELSE ratio.tenths, color)

(***************************************************************************)
(* main(), lines 82-164: one run of the script.  a, sp and jd are the      *)
(* widget values, btn the button whose click started the run ("none" for a *)
(* run started by a widget edit or the page load).                         *)
(***************************************************************************)
\* Python truth of a build_naver_search_url result
Truthy(v) == v # None /\ v.s # ""

\* lines 134-139: the dict and its .get default
risk_bg(risk) ==
    CASE risk = "Safe" -> "#E8F8F2"
      [] risk = "Caution" -> "#FFF4D6"
      [] risk = "Danger" -> "#FFE6E6"
      [] risk = "Unknown" -> "#F0F0F0"
      [] OTHER -> "#F0F0F0"

\* lines 97-101
SearchResult(url) ==
    IF Truthy(url) THEN [kind |-> "success", link |-> url.s]
    ELSE [kind |-> "warning"]

\* lines 95-101
SearchBlock(a, btn) ==
    IF btn = "search" THEN SearchResult(build_naver_search_url(Str(a)))
    ELSE [kind |-> "none"]

\* faulty variant of ResultPanel: the chart drawn from int(ratio)
ResultPanel_int_chart(ratio, level, sp, jd) ==
    [kind           |-> "result",
     metric_ratio   |-> FormatFloat1(ratio.tenths) \o "%",
     metric_price   |-> FormatThousands(sp),
     metric_deposit |-> FormatThousands(jd),
     risk           |-> level[1],
     color          |-> level[2],
     risk_bg        |-> risk_bg(level[1]),
     fig            |-> make_donut_chart(Float1(Tenths(ratio.tenths \div 10)),
                                         level[2])]

\* lines 128-164: the metrics, the risk panel and the chart
ResultPanel(ratio, level, sp, jd) ==
    [kind           |-> "result",
     metric_ratio   |-> FormatFloat1(ratio.tenths) \o "%",
     metric_price   |-> FormatThousands(sp),
     metric_deposit |-> FormatThousands(jd),
     risk           |-> level[1],
     color          |-> level[2],
     risk_bg        |-> risk_bg(level[1]),
     fig            |-> make_donut_chart(ratio, level[2])]

\* faulty variant of ResultOf: the test of line 125 left out, so that a None
\* ratio is rendered like any other
ResultOf_unguarded(ratio, sp, jd) ==
    [kind           |-> "result",
     metric_ratio   |-> IF ratio = None THEN "None%"
                        ELSE FormatFloat1(ratio.tenths) \o "%",
     metric_price   |-> FormatThousands(sp),
     metric_deposit |-> FormatThousands(jd),
     risk           |-> get_risk_level(ratio)[1],
     color          |-> get_risk_level(ratio)[2],
     risk_bg        |-> risk_bg(get_risk_level(ratio)[1]),
     fig            |-> make_donut_chart(ratio, get_risk_level(ratio)[2])]

\* lines 121-164
ResultOf(ratio, sp, jd) ==
    IF ratio = None THEN [kind |-> "warning"]
    ELSE ResultPanel(ratio, get_risk_level(ratio), sp, jd)

\* lines 119-164
ResultBlock(sp, jd, btn) ==
    IF btn = "compute"
    THEN ResultOf(calc_jeonse_ratio(IntNum(jd), sp), sp, jd)
    ELSE [kind |-> "none"]

main(a, sp, jd, btn) ==
    [search       |-> SearchBlock(a, btn),
     price_echo   |-> FormatThousands(sp),
     deposit_echo |-> FormatThousands(jd),
     result       |-> ResultBlock(sp, jd, btn)]

(***************************************************************************)
(* Inputs.                                                                 *)
(***************************************************************************)
\* number_input(step=100), lines 110 and 113
step == 100

MaxPriceSteps == 3

MaxDepositSteps == 4

\* values the user types rather than steps to
TypedPrices == {16, 80, 2000, 10000}

TypedDeposits == {1, 23, 50, 80, 5995, 5996, 7995, 7996, 8000, 10001, 15000}

PriceInputs == {k * step : k \in 0 .. MaxPriceSteps} \cup TypedPrices

DepositInputs == {k * step : k \in 0 .. MaxDepositSteps} \cup TypedDeposits

MaxAddrLen == 3

BoundedSeqs(S, n) == UNION {[1 .. k -> S] : k \in 0 .. n}

\* "Gangnam Apt"
GangnamApt == <<71, 97, 110, 103, 110, 97, 109, 32, 65, 112, 116>>

\* space and "A"
AddrInputs == BoundedSeqs({32, 65}, MaxAddrLen) \cup {GangnamApt}

\* arguments of the direct calls
MaxArgPrice == 16

MaxNegPrice == 2

MaxArgDeposit == 40

MaxRatioTenths == 1500

MaxArgAddrLen == 3

PriceArgs == ((0 - MaxNegPrice) .. MaxArgPrice) \cup {p \in PriceInputs : p > 0}

DepositArgs ==
    {IntNum(n) : n \in (0 .. MaxArgDeposit) \cup DepositInputs}
        \cup {Decimal(5999, 100), Decimal(5995, 100), Decimal(5, 100)}

RatioArgs == {None} \cup {Float1(t) : t \in 0 .. MaxRatioTenths}

ColorArgs == {"#7f8c8d", "#2ecc71", "#f1c40f", "#e74c3c"}

\* tab, space, "/", "?", "A", "a", e-acute (2 bytes), ideographic space
\* (3 bytes, whitespace), Hangul GA (3 bytes), an emoji (4 bytes)
ArgAlphabet == {9, 32, 47, 63, 65, 97, 233, 12288, 44032, 127968}

AddressArgs ==
    {None} \cup {Str(s) : s \in BoundedSeqs(ArgAlphabet, MaxArgAddrLen) \cup {GangnamApt}}

(***************************************************************************)
(* The interactive session.                                                *)
(***************************************************************************)
NoCall == [fn |-> "none"]

Init ==
    /\ addr = <<>>
    /\ sale_price = 0
    /\ jeonse_deposit = 0
    /\ clicked = "none"
    /\ page = main(<<>>, 0, 0, "none")
    /\ call = NoCall

\* line 93: the user commits a new address; the script reruns
EditAddr ==
    \E v \in AddrInputs :
        /\ addr' = v
        /\ clicked' = "none"
        /\ page' = main(v, sale_price, jeonse_deposit, "none")
        /\ UNCHANGED <<sale_price, jeonse_deposit, call>>

\* line 110
EditSalePrice ==
    \E v \in PriceInputs :
        /\ sale_price' = v
        /\ clicked' = "none"
        /\ page' = main(addr, v, jeonse_deposit, "none")
        /\ UNCHANGED <<addr, jeonse_deposit, call>>

\* faulty variant of EditDeposit: the result of an earlier run kept on the
\* page, as a result cached across runs would be
EditDeposit_keeps_result ==
    \E v \in DepositInputs :
        /\ jeonse_deposit' = v
        /\ clicked' = "none"
        /\ page' = [main(addr, sale_price, v, "none") EXCEPT !.result = page.result]
        /\ UNCHANGED <<addr, sale_price, call>>

\* line 113
EditDeposit ==
    \E v \in DepositInputs :
        /\ jeonse_deposit' = v
        /\ clicked' = "none"
        /\ page' = main(addr, sale_price, v, "none")
        /\ UNCHANGED <<addr, sale_price, call>>

\* line 95: the search button is clicked
PressSearch ==
    /\ clicked' = "search"
    /\ page' = main(addr, sale_price, jeonse_deposit, "search")
    /\ UNCHANGED <<addr, sale_price, jeonse_deposit, call>>

\* line 119: the compute button is clicked
PressCompute ==
    /\ clicked' = "compute"
    /\ page' = main(addr, sale_price, jeonse_deposit, "compute")
    /\ UNCHANGED <<addr, sale_price, jeonse_deposit, call>>

Next ==
    \/ EditAddr
    \/ EditSalePrice
    \/ EditDeposit
    \/ PressSearch
    \/ PressCompute

Spec == Init /\ [][Next]_vars

(***************************************************************************)
(* The helper functions called directly, one call at a time.               *)
(***************************************************************************)
ui == <<addr, sale_price, jeonse_deposit, clicked, page>>

CallBuildUrl ==
    /\ call = NoCall
    /\ \E a \in AddressArgs :
        /\ call' = [fn |-> "build_naver_search_url", address |-> a,
                    ret |-> build_naver_search_url(a)]
        /\ UNCHANGED ui

CallCalcRatio ==
    /\ call = NoCall
    /\ \E d \in DepositArgs, p \in PriceArgs :
        /\ call' = [fn |-> "calc_jeonse_ratio", deposit |-> d, price |-> p,
                    ret |-> calc_jeonse_ratio(d, p)]
        /\ UNCHANGED ui

CallRiskLevel ==
    /\ call = NoCall
    /\ \E r \in RatioArgs :
        /\ call' = [fn |-> "get_risk_level", ratio |-> r,
                    ret |-> get_risk_level(r)]
        /\ UNCHANGED ui

CallDonutChart ==
    /\ call = NoCall
    /\ \E r \in RatioArgs, c \in ColorArgs :
        /\ call' = [fn |-> "make_donut_chart", ratio |-> r, color |-> c,
                    ret |-> make_donut_chart(r, c)]
        /\ UNCHANGED ui

\* the call returns; the next one starts from a clean slate
Return ==
    /\ call # NoCall
    /\ call' = NoCall
    /\ UNCHANGED ui

FnNext ==
    \/ CallBuildUrl
    \/ CallCalcRatio
    \/ CallRiskLevel
    \/ CallDonutChart
    \/ Return

FnSpec == Init /\ [][FnNext]_vars

(***************************************************************************)
(* Properties.  Ratios and ring segments are in tenths of a percentage     *)
(* point: 600 is 60.0.                                                     *)
(***************************************************************************)
Abs(n) == IF n < 0 THEN 0 - n ELSE n

AllWhitespace(s) == \A i \in 1 .. Len(s) : s[i] \in Whitespace

\* s without its leading and trailing whitespace, by positions
Trimmed(s) ==
    LET keep == {i \in 1 .. Len(s) : s[i] \notin Whitespace}
    IN  IF keep = {} THEN <<>>
        ELSE SubSeq(s, CHOOSE i \in keep : \A j \in keep : i <= j,
                       CHOOSE i \in keep : \A j \in keep : j <= i)

Band(label) ==
    CASE label = "Safe" -> 1
      [] label = "Caution" -> 2
      [] label = "Danger" -> 3

CalcCalled == call.fn = "calc_jeonse_ratio"

\* C1: calc_jeonse_ratio returns None exactly when price <= 0; for price > 0
\* it returns a number (not None, no exception), and 0.0 for a deposit of 0.
C1_NoneIffPriceNotPositive ==
    CalcCalled =>
        /\ (call.price <= 0) <=> (call.ret = None)
        /\ call.price > 0 => call.ret.tag = "float"
        /\ (call.price > 0 /\ call.deposit.num = 0) => call.ret = Float1(0)

C1_Witness ==
    /\ CalcCalled
    /\ call.price <= 0
    /\ call.deposit.num > 0
    /\ call.ret = None

\* C2: get_risk_level has exactly four outcomes with strict-less-than
\* boundaries: None -> Unknown gray; < 60 -> Safe green; 60 <= r < 80 ->
\* Caution yellow; >= 80 (150.0 too) -> Danger red; Unknown iff None.
C2_FourBands ==
    call.fn = "get_risk_level" =>
        /\ (call.ratio = None) <=> (call.ret[1] = "Unknown")
        /\ call.ratio = None => call.ret = <<"Unknown", "#7f8c8d">>
        /\ call.ratio # None =>
            /\ call.ratio.tenths < 600 => call.ret = <<"Safe", "#2ecc71">>
            /\ (600 <= call.ratio.tenths /\ call.ratio.tenths < 800)
                   => call.ret = <<"Caution", "#f1c40f">>
            /\ call.ratio.tenths >= 800 => call.ret = <<"Danger", "#e74c3c">>
        /\ call.ratio = Float1(599) => call.ret[1] = "Safe"
        /\ call.ratio = Float1(600) => call.ret[1] = "Caution"
        /\ call.ratio = Float1(799) => call.ret[1] = "Caution"
        /\ call.ratio = Float1(800) => call.ret[1] = "Danger"
        /\ call.ratio = Float1(1500) => call.ret[1] = "Danger"

C2_Witness ==
    /\ call.fn = "get_risk_level"
    /\ call.ratio = Float1(600)
    /\ call.ret = <<"Caution", "#f1c40f">>

\* C3: for price > 0, ten times calc_jeonse_ratio(deposit, price) is an
\* integer within one half of 1000 * deposit / price; (50, 100) gives 50.0,
\* (80, 100) gives 80.0 and (59.99, 100) gives 60.0.
C3_RoundedToOneDecimal ==
    (CalcCalled /\ call.price > 0) =>
        /\ call.ret.tag = "float"
        /\ 2 * Abs(call.ret.tenths * call.deposit.den * call.price
                       - 1000 * call.deposit.num)
               <= call.deposit.den * call.price
        /\ (call.deposit = IntNum(50) /\ call.price = 100)
               => call.ret = Float1(500)
        /\ (call.deposit = IntNum(80) /\ call.price = 100)
               => call.ret = Float1(800)
        /\ (call.deposit = Decimal(5999, 100) /\ call.price = 100)
               => call.ret = Float1(600)

C3_Witness ==
    /\ CalcCalled
    /\ call.deposit = Decimal(5999, 100)
    /\ call.price = 100
    /\ call.ret = Float1(600)

\* C4: build_naver_search_url returns None iff the address is None or empty
\* after trimming; otherwise the fixed prefix followed by the percent-encoding
\* of the trimmed address, a space as %20, case kept: "Gangnam Apt" gives
\* https://new.land.naver.com/search?sk=Gangnam%20Apt.
C4_SearchUrl ==
    call.fn = "build_naver_search_url" =>
        /\ (call.ret = None)
               <=> (call.address = None \/ AllWhitespace(call.address.chars))
        /\ call.ret # None =>
               call.ret = Text("https://new.land.naver.com/search?sk="
                                   \o quote(Trimmed(call.address.chars)))
        /\ call.address = Str(<<>>) => call.ret = None
        /\ call.address = Str(<<32, 32, 32>>) => call.ret = None
        /\ call.address = Str(<<32, 65, 32>>)
               => call.ret = Text("https://new.land.naver.com/search?sk=A")
        /\ call.address = Str(<<97, 32, 65>>)
               => call.ret = Text("https://new.land.naver.com/search?sk=a%20A")
        /\ call.address = Str(GangnamApt)
               => call.ret
                      = Text("https://new.land.naver.com/search?sk=Gangnam%20Apt")

C4_Witness ==
    /\ call.fn = "build_naver_search_url"
    /\ call.address = Str(GangnamApt)
    /\ call.ret = Text("https://new.land.naver.com/search?sk=Gangnam%20Apt")

\* C5: make_donut_chart(None, color) does not raise: the ring is [0, 100],
\* the hole 0.7, no legend, the center annotation "0.0%" in the given color.
C5_NoneGivesNeutralRing ==
    (call.fn = "make_donut_chart" /\ call.ratio = None) =>
        /\ call.ret.tag = "Figure"
        /\ call.ret.values = <<0, 1000>>
        /\ call.ret.hole = Float1(7)
        /\ call.ret.showlegend = FALSE
        /\ Len(call.ret.annotations) = 1
        /\ call.ret.annotations[1].text = "0.0%"
        /\ call.ret.annotations[1].font.color = call.color

C5_Witness ==
    /\ call.fn = "make_donut_chart"
    /\ call.ratio = None
    /\ call.color = "#7f8c8d"
    /\ call.ret.values = <<0, 1000>>
    /\ call.ret.annotations[1].text = "0.0%"

ResultShown == page.result.kind = "result"

\* C6: one press of the compute button runs the pipeline on one ratio: the
\* label and color are get_risk_level(calc_jeonse_ratio(deposit, price)), the
\* chart is make_donut_chart of that ratio and color; 8000 / 10000 gives
\* 80.0, Danger, segments [80.0, 20.0] and the annotation "80.0%".
C6_OnePipelineOneRatio ==
    (clicked = "compute" /\ sale_price > 0) =>
        /\ ResultShown
        /\ <<page.result.risk, page.result.color>>
               = get_risk_level(calc_jeonse_ratio(IntNum(jeonse_deposit), sale_price))
        /\ page.result.fig
               = make_donut_chart(calc_jeonse_ratio(IntNum(jeonse_deposit), sale_price),
                                  page.result.color)
        /\ page.result.metric_ratio = page.result.fig.annotations[1].text
        /\ page.result.fig.colors[1] = page.result.color
        /\ page.result.fig.annotations[1].font.color = page.result.color
        /\ (page.result.fig.values[1] < 600) <=> (page.result.risk = "Safe")
        /\ (page.result.fig.values[1] >= 800) <=> (page.result.risk = "Danger")
        /\ (jeonse_deposit = 8000 /\ sale_price = 10000) =>
            /\ page.result.metric_ratio = "80.0%"
            /\ page.result.risk = "Danger"
            /\ page.result.fig.values = <<800, 200>>
            /\ page.result.fig.annotations[1].text = "80.0%"

C6_Witness ==
    /\ clicked = "compute"
    /\ jeonse_deposit = 8000
    /\ sale_price = 10000
    /\ ResultShown
    /\ page.result.risk = "Danger"
    /\ page.result.fig.values = <<800, 200>>

\* what a compute press with sale price <= 0, and a search press on a blank
\* address, leave on the page
C7_WarningState ==
    /\ (clicked = "compute" /\ sale_price <= 0) =>
           (page.result = [kind |-> "warning"] /\ page.search = [kind |-> "none"])
    /\ ResultShown =>
           (page.result.risk # "Unknown" /\ page.result.risk_bg # "#F0F0F0")
    /\ (clicked = "search" /\ AllWhitespace(addr)) =>
           (page.search = [kind |-> "warning"] /\ page.result = [kind |-> "none"])

\* a step that is a button press leaves the three entered values alone
C7_PressKeepsInputs ==
    clicked' \in {"compute", "search"} =>
        (addr' = addr /\ sale_price' = sale_price /\ jeonse_deposit' = jeonse_deposit)

\* C7: a compute press with sale price <= 0 renders a warning and nothing
\* else (no exception, metrics, panel or chart, so Unknown is never shown) and
\* keeps the three entered values; a search press on a blank address renders
\* a prompt, no link, no exception.
C7_WarningOnly == []C7_WarningState /\ [][C7_PressKeepsInputs]_vars

C7_Witness ==
    /\ clicked = "compute"
    /\ sale_price = 0
    /\ jeonse_deposit = 8000
    /\ addr = GangnamApt
    /\ page.result = [kind |-> "warning"]

DonutCalled == call.fn = "make_donut_chart"

PassedRatio == IF call.ratio = None THEN 0 ELSE call.ratio.tenths

\* the part of C8 that holds as stated: the segments are ratio and
\* 100 - ratio, sum to 100, nothing clamped
C8_Segments ==
    DonutCalled =>
        /\ call.ret.values = <<PassedRatio, 1000 - PassedRatio>>
        /\ call.ret.values[1] + call.ret.values[2] = 1000
        /\ (call.ret.values[2] >= 0) <=> (PassedRatio <= 1000)

DepositAbovePrice ==
    /\ CalcCalled
    /\ call.price > 0
    /\ call.deposit.num > call.deposit.den * call.price

\* the second ring segment of the chart the pipeline draws for the ratio
SecondSegment == make_donut_chart(call.ret, get_risk_level(call.ret)[2]).values[2]

\* C8 as stated: ... and for any deposit greater than the sale price the
\* classifier says Danger and the second segment is negative.
C8_Original ==
    /\ C8_Segments
    /\ DepositAbovePrice =>
           (get_risk_level(call.ret)[1] = "Danger" /\ SecondSegment < 0)

\* C8 amended: the segments are ratio and 100 - ratio, sum to 100, nothing
\* clamped; the second is negative exactly when the rounded ratio exceeds
\* 100.0; a deposit above the sale price is Danger with a second segment that
\* is negative or, when the ratio rounds to 100.0, zero.
C8_SegmentsUnclamped ==
    /\ C8_Segments
    /\ (CalcCalled /\ call.price > 0) =>
           ((SecondSegment < 0) <=> (call.ret.tenths > 1000))
    /\ DepositAbovePrice =>
        /\ get_risk_level(call.ret)[1] = "Danger"
        /\ SecondSegment <= 0
        /\ (SecondSegment = 0) <=> (call.ret = Float1(1000))

C8_Witness ==
    /\ DonutCalled
    /\ call.ratio = Float1(1500)
    /\ call.ret.values = <<1500, 0 - 500>>

\* C9: a displayed result is never stale: it is on screen only in the run of
\* the compute press, it equals what the current sale price and deposit give,
\* and the search link and the result are never on screen together.
C9_NeverStale ==
    /\ page.result.kind # "none" => clicked = "compute"
    /\ page.search.kind # "none" => clicked = "search"
    /\ ResultShown =>
        /\ sale_price > 0
        /\ page.result.metric_price = FormatThousands(sale_price)
        /\ page.result.metric_deposit = FormatThousands(jeonse_deposit)
        /\ 2 * Abs(page.result.fig.values[1] * sale_price - 1000 * jeonse_deposit)
               <= sale_price
        /\ page.result.metric_ratio
               = FormatFloat1(page.result.fig.values[1]) \o "%"
        /\ page.result.risk = get_risk_level(Float1(page.result.fig.values[1]))[1]
    /\ page.search.kind = "success" =>
           page.search.link = build_naver_search_url(Str(addr)).s

C9_Witness ==
    /\ ResultShown
    /\ addr = GangnamApt
    /\ sale_price = 10000
    /\ jeonse_deposit = 5996
    /\ page.result.metric_ratio = "60.0%"

\* C10: for a fixed price the risk band never falls as the deposit grows, and
\* the band is that of the rounded ratio: a raw quotient in [59.95, 60) is
\* Caution, one in [79.95, 80) is Danger (5996 / 10000 is Caution).
C10_MonotoneRoundedBand ==
    ResultShown =>
        /\ \A d \in DepositInputs :
               d <= jeonse_deposit =>
                   Band(get_risk_level(calc_jeonse_ratio(IntNum(d), sale_price))[1])
                       <= Band(page.result.risk)
        /\ (10000 * jeonse_deposit >= 5995 * sale_price
                /\ 100 * jeonse_deposit < 60 * sale_price)
               => page.result.risk = "Caution"
        /\ (10000 * jeonse_deposit >= 7995 * sale_price
                /\ 100 * jeonse_deposit < 80 * sale_price)
               => page.result.risk = "Danger"
        /\ (jeonse_deposit = 5996 /\ sale_price = 10000)
               => page.result.risk = "Caution"

C10_Witness ==
    /\ clicked = "compute"
    /\ jeonse_deposit = 5995
    /\ sale_price = 10000
    /\ page.result.kind = "result"
    /\ page.result.risk = "Caution"

====
